---- MODULE Spec2Model ----
(***************************************************************************)
(* A model of reader3's Streamlit front end (src/app.py): the PDF and      *)
(* Markdown extractors, the pickle store under BOOKS_DIR, the library scan *)
(* and the upload handler.                                                 *)
(*                                                                         *)
(* Strings are sequences of one-character strings, so that the regular     *)
(* expressions, str.strip and the f-strings of the source are computed     *)
(* character by character.  Python indices are 0-based, TLA+ sequences are *)
(* 1-based: position p of the model is Python's index p-1.                 *)
(***************************************************************************)
EXTENDS Integers, Sequences, FiniteSets, TLC

\* ---------------------------------------------------------------- bounds

\* longest Markdown text enumerated by the extractor specification
MaxLen == 5
\* largest page count of a PDF given to the extractor specification
MaxPages == 25
\* most lines of a Markdown text built from whole lines
MaxLines == 3
\* number of temporary-file names the operating system can hand out
MaxTmp == 1

\* ------------------------------------------------------ program constants

\* pages_per_chapter = 10
pages_per_chapter == 10

\* ------------------------------------------------------------- characters

\* the characters Markdown texts are enumerated over: a heading marker, a
\* blank, a line break and a letter
Char == {"#", " ", "\n", "a"}

\* regular-expression class \s, and the characters str.strip() removes
IsSpace(c) == c \in {" ", "\n", "\t", "\r"}

SetMax(S) == CHOOSE x \in S : \A y \in S : y <= x

SetMin(S) == CHOOSE x \in S : \A y \in S : x <= y

\* s[from .. to-1] of the model = Python's s[from-1 : to-1]
Slice(s, from, to) == SubSeq(s, from, to - 1)

\* all strings over Char of length <= n
StringsUpTo(n) == UNION {[1..k -> Char] : k \in 0..n}

\* str.strip(): leading and trailing whitespace removed
strip(s) ==
    LET keep == {p \in 1..Len(s) : ~IsSpace(s[p])}
    IN  IF keep = {} THEN <<>> ELSE SubSeq(s, SetMin(keep), SetMax(keep))

\* str.strip('#'): leading and trailing '#' removed
strip_hash(s) ==
    LET keep == {p \in 1..Len(s) : s[p] # "#"}
    IN  IF keep = {} THEN <<>> ELSE SubSeq(s, SetMin(keep), SetMax(keep))

\* str.startswith('#')
startswith_hash(s) == Len(s) >= 1 /\ s[1] = "#"

\* ''.join(parts)
RECURSIVE join_empty(_)
join_empty(parts) ==
    IF parts = <<>> THEN <<>> ELSE Head(parts) \o join_empty(Tail(parts))

\* "\n\n".join(parts)
RECURSIVE join_blank_line(_)
join_blank_line(parts) ==
    IF parts = <<>> THEN <<>>
    ELSE IF Len(parts) = 1 THEN Head(parts)
    ELSE Head(parts) \o <<"\n", "\n">> \o join_blank_line(Tail(parts))

\* str(n) of a natural number, as the f-strings format it
RECURSIVE str_int(_)
str_int(n) ==
    LET digit == <<"0", "1", "2", "3", "4", "5", "6", "7", "8", "9">>
    IN  IF n < 10 THEN <<digit[n + 1]>>
        ELSE str_int(n \div 10) \o <<digit[(n % 10) + 1]>>

\* ------------------------------------------------- the heading expressions

\* number of consecutive '#' of s from position p on
HashRun(s, p) ==
    SetMax({n \in 0..(Len(s) - p + 1) : \A k \in 0..(n - 1) : s[p + k] = "#"})

\* first position >= a of s that holds no whitespace (Len(s)+1 if none)
SpaceEnd(s, a) ==
    SetMin({b \in a..(Len(s) + 1) : b = Len(s) + 1 \/ ~IsSpace(s[b])})

\* first position >= e of s that holds a line break (Len(s)+1 if none):
\* where a greedy .+ followed by $ stops under re.MULTILINE
LineEnd(s, e) ==
    SetMin({m \in e..(Len(s) + 1) : m = Len(s) + 1 \/ s[m] = "\n"})

\* ^ under re.MULTILINE
LineStart(s, p) == p = 1 \/ s[p - 1] = "\n"

\* The match of  #{1,maxh}\s+(.+)$  at position p: the markers, then the
\* longest run of whitespace (line breaks included) that still leaves one
\* character other than a line break for .+, which then runs to the end of
\* its line.  e is where group .+ starts, m is one past the end of the match.
match_heading(s, p, maxh) ==
    LET n    == HashRun(s, p)
        a    == p + n
        b    == SpaceEnd(s, a)
        cand == {c \in (a + 1)..b : c <= Len(s) /\ s[c] # "\n"}
    IN  IF n >= 1 /\ n <= maxh /\ cand # {}
        THEN [ok |-> TRUE, e |-> SetMax(cand), m |-> LineEnd(s, SetMax(cand))]
        ELSE [ok |-> FALSE, e |-> 0, m |-> 0]

\* the leftmost position >= p where the expression matches, 0 if none
search_heading(s, p, maxh) ==
    LET hits == {q \in p..Len(s) : LineStart(s, q) /\ match_heading(s, q, maxh).ok}
    IN  IF hits = {} THEN 0 ELSE SetMin(hits)

\* re.split(r'^(#{1,2}\s+.+)$', s, flags=re.MULTILINE) of s from position p:
\* text, heading, text, heading, ..., text
RECURSIVE re_split_from(_, _)

\* the pieces of s from p on, given the next match: it starts at q, ends before m
split_match(s, p, q, m) ==
    <<Slice(s, p, q), Slice(s, q, m)>> \o re_split_from(s, m)

\* the pieces of s from p on, given where the next match starts (0: nowhere)
split_at(s, p, q) ==
    IF q = 0 THEN <<Slice(s, p, Len(s) + 1)>>
    ELSE split_match(s, p, q, match_heading(s, q, 2).m)

re_split_from(s, p) == split_at(s, p, search_heading(s, p, 2))

re_split(md_content) == re_split_from(md_content, 1)

\* group(1) of a match hm
group1(s, hm) == Slice(s, hm.e, hm.m)

\* the match object of a search that found position q (0: None)
match_object(s, q) ==
    IF q = 0 THEN [found |-> FALSE, group1 |-> <<>>]
    ELSE [found |-> TRUE, group1 |-> group1(s, match_heading(s, q, 1))]

\* re.search(r'^#\s+(.+)$', md_content, re.MULTILINE): the match or None
first_h1(md_content) == match_object(md_content, search_heading(md_content, 1, 1))

\* ------------------------------------------------------------ the Book type

\* "Introduction"
Introduction == <<"I", "n", "t", "r", "o", "d", "u", "c", "t", "i", "o", "n">>

\* "Unknown"
Unknown == <<"U", "n", "k", "n", "o", "w", "n">>

\* f"chapter_{k}"
chapter_id(k) == <<"c", "h", "a", "p", "t", "e", "r", "_">> \o str_int(k)

\* ChapterContent(id, href, title, content, text, order); href repeats id and
\* content is the text rendered for display, neither is read by the model
ChapterContent(id, title, text, order) ==
    [id |-> id, title |-> title, text |-> text, order |-> order]

\* BookMetadata(title, authors, ...)
BookMetadata(title, authors) == [title |-> title, authors |-> authors]

\* Book(metadata, spine, toc, images, source_file, processed_at)
Book(metadata, spine) == [metadata |-> metadata, spine |-> spine, toc |-> <<>>]

\* the value standing for "no Book" (None, or nothing returned)
NoBook == Book(BookMetadata(<<>>, <<>>), <<>>)

\* what a call hands back: it raised, or it returned a Book
Raised == [raised |-> TRUE, book |-> NoBook]

Returned(book) == [raised |-> FALSE, book |-> book]

\* ------------------------------------------------------------- process_pdf

\* page.extract_text() of page page_num (0-based): every page of a modelled
\* PDF carries its own 1-based number, so that pages can be told apart
extract_text(file, page_num) == <<"p">> \o str_int(page_num + 1)

\* end_page without the min(): the last group runs past the last page
end_page_unclamped(i, num_pages) == i + pages_per_chapter

\* end_page = min(i + pages_per_chapter, num_pages)
end_page(i, num_pages) ==
    IF i + pages_per_chapter < num_pages THEN i + pages_per_chapter ELSE num_pages

\* chapter_pages: the texts of pages range(i, end_page)
chapter_pages(file, i) ==
    [k \in 1..(end_page(i, file.num_pages) - i) |-> extract_text(file, i + k - 1)]

\* i // pages_per_chapter
pdf_chapter_idx(i) == i \div pages_per_chapter

\* f"Pages {i+1}-{end_page}"
pdf_title(i, last) ==
    <<"P", "a", "g", "e", "s", " ">> \o str_int(i + 1) \o <<"-">> \o str_int(last)

\* the ChapterContent built by one iteration of the page loop
pdf_chapter(file, i) ==
    ChapterContent(chapter_id(pdf_chapter_idx(i)),
                   pdf_title(i, end_page(i, file.num_pages)),
                   join_blank_line(chapter_pages(file, i)),
                   pdf_chapter_idx(i))

\* for i in range(0, num_pages, pages_per_chapter): spine.append(chapter)
RECURSIVE pdf_spine(_, _, _)
pdf_spine(file, i, spine) ==
    IF i >= file.num_pages THEN spine
    ELSE pdf_spine(file, i + pages_per_chapter, Append(spine, pdf_chapter(file, i)))

\* authors=[pdf_reader.metadata.author] if ... else ["Unknown"]
pdf_authors(file) == IF file.author # <<>> THEN <<file.author>> ELSE <<Unknown>>

\* process_pdf(pdf_path, output_dir, title), the value it returns or the
\* exception PyPDF2 raises on a file it cannot read
process_pdf(file, title) ==
    IF ~file.well_formed THEN Raised
    ELSE Returned(Book(BookMetadata(title, pdf_authors(file)), pdf_spine(file, 0, <<>>)))

\* -------------------------------------------------------- process_markdown

\* the loop state before the first section
md_start ==
    [spine |-> <<>>, current_title |-> Introduction, current_content |-> <<>>,
     chapter_idx |-> 0]

\* md_save without  chapter_idx += 1
md_save_no_increment(st) ==
    IF st.current_content # <<>>
    THEN [st EXCEPT !.spine = Append(@, ChapterContent(chapter_id(st.chapter_idx),
                                                        st.current_title,
                                                        join_empty(st.current_content),
                                                        st.chapter_idx))]
    ELSE st

\* "Save previous chapter if exists": if current_content: spine.append(...)
md_save(st) ==
    IF st.current_content # <<>>
    THEN [st EXCEPT !.spine = Append(@, ChapterContent(chapter_id(st.chapter_idx),
                                                        st.current_title,
                                                        join_empty(st.current_content),
                                                        st.chapter_idx)),
                    !.chapter_idx = @ + 1]
    ELSE st

\* one iteration of  for i, section in enumerate(sections)
md_step(st, i, section) ==
    IF i = 0 /\ strip(section) # <<>>
    THEN [st EXCEPT !.current_content = Append(@, section)]
    ELSE IF startswith_hash(section)
    THEN [md_save(st) EXCEPT !.current_title = strip(strip_hash(section)),
                             !.current_content = <<>>]
    ELSE [st EXCEPT !.current_content = Append(@, section)]

\* the whole loop over sections[i..]
RECURSIVE md_loop(_, _, _)
md_loop(st, i, sections) ==
    IF i >= Len(sections) THEN st
    ELSE md_loop(md_step(st, i, sections[i + 1]), i + 1, sections)

\* if first_h1: title = first_h1.group(1)
title_override(h1, title) == IF h1.found THEN h1.group1 ELSE title

\* md_title that takes a level-1 heading only if no level-2 heading comes first
md_title_first_heading_only(md_content, title) ==
    IF search_heading(md_content, 1, 2) = search_heading(md_content, 1, 1)
    THEN title_override(first_h1(md_content), title)
    ELSE title

\* "Extract title from first h1 if exists"
md_title(md_content, title) == title_override(first_h1(md_content), title)

\* "If no chapters were created, make one from entire content"
md_fallback(spine, md_content, title) ==
    IF spine = <<>>
    THEN <<ChapterContent(chapter_id(0), title, md_content, 0)>>
    ELSE spine

\* the loop over the sections, then "Add last chapter", then the fallback
md_spine(md_content, title) ==
    md_fallback(md_save(md_loop(md_start, 0, re_split(md_content))).spine,
                md_content, title)

\* the Book made of md_content once the title is settled
md_book(md_content, title) ==
    Book(BookMetadata(title, <<Unknown>>), md_spine(md_content, title))

\* process_markdown(md_path, output_dir, title), the value it returns or the
\* UnicodeDecodeError of file.read()
process_markdown(file, title) ==
    IF ~file.well_formed THEN Raised
    ELSE Returned(md_book(file.text, md_title(file.text, title)))

\* ------------------------------------------------------------------ files

\* "_data"
DataSuffix == <<"_", "d", "a", "t", "a">>

\* output_dir = str(BOOKS_DIR / f"{base_name}_data")
output_dir(base_name) == base_name \o DataSuffix

\* the immediate subdirectories BOOKS_DIR can hold, in iterdir() order: one per
\* base name, and one directory that is no book's
NotesDir == <<"n", "o", "t", "e", "s">>

DirList == <<output_dir(<<"a">>), output_dir(<<"b">>), NotesDir>>

Dirs == {DirList[k] : k \in 1..Len(DirList)}

\* a file as the extractors see it: extension, base name, whether its bytes
\* parse (PDF structure, UTF-8), its text (Markdown), its pages and author (PDF)
File(ext, stem, well_formed, text, num_pages, author) ==
    [ext |-> ext, stem |-> stem, well_formed |-> well_formed, text |-> text,
     num_pages |-> num_pages, author |-> author]

\* no file chosen in st.file_uploader
NoFile == File("", <<>>, FALSE, <<>>, 0, <<>>)

\* "# Title\n\nIntro text\n\n## Section A\n\nBody A"
ExampleDoc ==
    <<"#", " ", "T", "i", "t", "l", "e", "\n", "\n", "I", "n", "t", "r",
    "o", " ", "t", "e", "x", "t", "\n", "\n", "#", "#", " ", "S", "e", "c",
    "t", "i", "o", "n", " ", "A", "\n", "\n", "B", "o", "d", "y", " ", "A">>

\* the lines Markdown texts are built from: an empty line, plain text, a
\* level-1, a level-2 and a level-3 heading, a heading whose text is a marker
MdLines ==
    { <<>>, <<"a">>, <<"#", " ", "a">>, <<"#", "#", " ", "c">>,
      <<"#", "#", "#", " ", "a">>, <<"#", " ", "#">> }

\* "\n".join(lines)
RECURSIVE join_lines(_)
join_lines(lines) ==
    IF lines = <<>> THEN <<>>
    ELSE IF Len(lines) = 1 THEN Head(lines)
    ELSE Head(lines) \o <<"\n">> \o join_lines(Tail(lines))

\* all texts of 1..n lines of MdLines
LinesUpTo(n) == {join_lines(ls) : ls \in UNION {[1..k -> MdLines] : k \in 1..n}}

\* the Markdown files given to the extractor: every text up to MaxLen
\* characters, every text of up to MaxLines lines, the example document, and a
\* file that is not UTF-8
MarkdownFiles ==
    {File(".md", <<"b">>, TRUE, t, 0, <<>>) :
        t \in StringsUpTo(MaxLen) \cup LinesUpTo(MaxLines) \cup {ExampleDoc}}
    \cup {File(".md", <<"b">>, FALSE, <<>>, 0, <<>>)}

\* the PDF files given to the extractor: 0..MaxPages pages, with or without
\* an author, and a file PyPDF2 cannot read
PdfFiles ==
    {File(".pdf", <<"a">>, TRUE, <<>>, n, au) :
        n \in 0..MaxPages, au \in {<<>>, <<"x">>}}
    \cup {File(".pdf", <<"a">>, FALSE, <<>>, 0, <<>>)}

\* ---------------------------------------------------------------- the store

\* a directory of BOOKS_DIR: absent, without book.pkl ("empty"), with a
\* book.pkl that unpickles to a Book ("book") or with one that does not
\* ("corrupt")
DirEntry(state, book) == [state |-> state, book |-> book]

AbsentDir == DirEntry("absent", NoBook)

EmptyDir == DirEntry("empty", NoBook)

CorruptDir == DirEntry("corrupt", NoBook)

\* if os.path.exists(output_dir): shutil.rmtree(output_dir)
\* os.makedirs(output_dir, exist_ok=True)
make_output_dir(store, dir) == [store EXCEPT ![dir] = EmptyDir]

\* ------------------------------------------------------ load_book_from_folder

\* what load_book_from_folder hands its caller: an exception (raised), None
\* (is_none) or a Book; st_error tells whether it called st.error on the way
LoadResult(raised, is_none, book, st_error) ==
    [raised |-> raised, is_none |-> is_none, book |-> book, st_error |-> st_error]

\* the value of `loaded` before the reader view has loaded anything
NotLoaded == LoadResult(FALSE, TRUE, NoBook, FALSE)

\* load_book_from_folder without its try/except: pickle.load's exception escapes
load_book_unguarded(store, folder_name) ==
    IF store[folder_name].state \in {"absent", "empty"}
    THEN LoadResult(FALSE, TRUE, NoBook, FALSE)
    ELSE IF store[folder_name].state = "book"
    THEN LoadResult(FALSE, FALSE, store[folder_name].book, FALSE)
    ELSE LoadResult(TRUE, FALSE, NoBook, FALSE)

\* load_book_from_folder(folder_name)
load_book_from_folder(store, folder_name) ==
    IF store[folder_name].state \in {"absent", "empty"}
    THEN LoadResult(FALSE, TRUE, NoBook, FALSE)              \* not file_path.exists()
    ELSE IF store[folder_name].state = "book"
    THEN LoadResult(FALSE, FALSE, store[folder_name].book, FALSE)  \* pickle.load(f)
    ELSE LoadResult(FALSE, TRUE, NoBook, TRUE)               \* except Exception

\* -------------------------------------------------------------- get_all_books

\* str.endswith(suffix)
endswith(s, suffix) ==
    /\ Len(s) >= Len(suffix)
    /\ SubSeq(s, Len(s) - Len(suffix) + 1, Len(s)) = suffix

\* item.is_dir() and item.name.endswith("_data")
is_book_dir(store, name) == store[name].state # "absent" /\ endswith(name, DataSuffix)

\* the summary get_all_books appends for a loaded book
book_summary(name, book) ==
    [id |-> name, title |-> book.metadata.title, authors |-> book.metadata.authors,
     chapters |-> Len(book.spine), book |-> book]

\* what get_all_books hands its caller: an exception, or the list of summaries
ScanResult(raised, books) == [raised |-> raised, books |-> books]

\* book = load_book_from_folder(item.name); if book: books.append({...})
scan_loaded(name, book, acc) ==
    IF book.raised THEN ScanResult(TRUE, <<>>)
    ELSE IF book.is_none THEN acc
    ELSE ScanResult(FALSE, Append(acc.books, book_summary(name, book.book)))

\* the body of  for item in BOOKS_DIR.iterdir()
scan_item(store, name, acc) ==
    IF acc.raised \/ ~is_book_dir(store, name) THEN acc
    ELSE scan_loaded(name, load_book_from_folder(store, name), acc)

RECURSIVE scan_from(_, _, _)
scan_from(store, k, acc) ==
    IF k > Len(DirList) THEN acc
    ELSE scan_from(store, k + 1, scan_item(store, DirList[k], acc))

\* get_all_books()
get_all_books(store) == scan_from(store, 1, ScanResult(FALSE, <<>>))

\* ------------------------------------------------------ process_uploaded_file

\* ".html"
HtmlSuffix == <<".", "h", "t", "m", "l">>

\* the href of a Section: href=f"chapter_{k}.html", the id followed by ".html"
chapter_href(ch) == ch.id \o HtmlSuffix

\* TOCEntry(title, href, file_href, children) of reader3
TOCEntry(title, file_href, children) ==
    [title |-> title, file_href |-> file_href, children |-> children]

\* the table of contents of the modelled e-book: an entry for the second
\* Section, and a group heading without target that holds an entry for the
\* first Section
EpubToc ==
    << TOCEntry(<<"T", "w", "o">>, <<"c", "2">> \o HtmlSuffix, <<>>),
       TOCEntry(<<"P", "a", "r", "t">>, <<>>,
                << TOCEntry(<<"O", "n", "e">>, <<"c", "1">> \o HtmlSuffix, <<>>) >>) >>

\* process_epub(tmp_path, output_dir) of reader3: a Book with a spine of at
\* least one Section and a table of contents, or a failure on an archive it
\* cannot read
process_epub(file) ==
    IF ~file.well_formed THEN Raised
    ELSE Returned([Book(BookMetadata(<<"e">>, <<Unknown>>),
                        <<ChapterContent(<<"c", "1">>, <<"O", "n", "e">>, <<"x">>, 0),
                          ChapterContent(<<"c", "2">>, <<"T", "w", "o">>, <<"y">>, 1)>>)
                     EXCEPT !.toc = EpubToc])

\* save_to_pickle(book, output_dir) of reader3: it writes book.pkl ("ok"),
\* fails before writing ("fail") or fails part-way through the write, leaving
\* a truncated book.pkl ("truncated")
save_to_pickle(store, book, dir, outcome) ==
    IF outcome = "ok"
    THEN [store |-> [store EXCEPT ![dir] = DirEntry("book", book)], raised |-> FALSE]
    ELSE IF outcome = "truncated"
    THEN [store |-> [store EXCEPT ![dir] = CorruptDir], raised |-> TRUE]
    ELSE [store |-> store, raised |-> TRUE]

SaveOutcomes == {"ok", "fail", "truncated"}

\* the if/elif chain on file_extension: the store it leaves and what it
\* returned or raised
extract(store, file) ==
    IF file.ext = ".epub"
    THEN [store |-> store, res |-> process_epub(file)]
    ELSE IF file.ext = ".pdf"
    THEN [store |-> make_output_dir(store, output_dir(file.stem)),
          res   |-> process_pdf(file, file.stem)]
    ELSE IF file.ext \in {".md", ".markdown"}
    THEN [store |-> make_output_dir(store, output_dir(file.stem)),
          res   |-> process_markdown(file, file.stem)]
    ELSE [store |-> store, res |-> Raised]          \* raise ValueError

\* return book, output_dir  -- or the exception of save_to_pickle
saved(sv, res) ==
    IF sv.raised THEN [store |-> sv.store, res |-> Raised]
    ELSE [store |-> sv.store, res |-> res]

\* save_to_pickle(book, output_dir), reached only if the extractor returned
save_extracted(ex, dir, save_outcome) ==
    IF ex.res.raised THEN [store |-> ex.store, res |-> Raised]
    ELSE saved(save_to_pickle(ex.store, ex.res.book, dir, save_outcome), ex.res)

\* the try block: extract, then save_to_pickle(book, output_dir)
extract_and_save(store, file, save_outcome) ==
    save_extracted(extract(store, file), output_dir(file.stem), save_outcome)

\* the temporary files left once the try/finally statement is over:
\* finally: os.unlink(tmp_path)
after_finally(tmp, tmp_path) == tmp \ {tmp_path}

\* the try/finally statement, entered with the temporary file in place
try_finally(done, tmp, tmp_path) ==
    [store |-> done.store, tmp_files |-> after_finally(tmp, tmp_path), res |-> done.res]

\* process_uploaded_file(uploaded_file), with the temporary file tmp_path that
\* NamedTemporaryFile(delete=False) creates; `staged` tells whether
\* tmp_file.write(uploaded_file.read()) went through
process_uploaded_file(store, tmp, file, tmp_path, staged, save_outcome) ==
    IF ~staged
    THEN [store |-> store, tmp_files |-> tmp \cup {tmp_path}, res |-> Raised]
    ELSE try_finally(extract_and_save(store, file, save_outcome),
                     tmp \cup {tmp_path}, tmp_path)

\* ---------------------------------------------------------------- the state

VARIABLES
    uploaded_file,     \* the file chosen in st.file_uploader, or NoFile
    store,             \* BOOKS_DIR: directory name -> DirEntry
    tmp_files,         \* the temporary files that exist
    ret,               \* the last extractor or upload call and how it ended
    view,              \* st.session_state.view
    current_book,      \* st.session_state.current_book (<<>> is None)
    current_chapter,   \* st.session_state.current_chapter
    rendered,          \* the main-content branch the last script run executed
    books,             \* what get_all_books() returned to the library view
    loaded             \* what load_book_from_folder() returned to the reader view

vars ==
    <<uploaded_file, store, tmp_files, ret, view, current_book, current_chapter,
      rendered, books, loaded>>

\* the record kept of a call: which function, whether it raised, the Book it
\* returned, and the temporary file it created (0: none)
Call(op, res, tmp_path) ==
    [op |-> op, raised |-> res.raised, book |-> res.book, tmp_path |-> tmp_path]

NoCall == Call("none", Returned(NoBook), 0)

EmptyStore == [d \in Dirs |-> IF d = NotesDir THEN EmptyDir ELSE AbsentDir]

\* the files a user uploads through the sidebar
Uploads ==
    { File(".pdf", <<"a">>, TRUE, <<>>, 11, <<>>),
      File(".pdf", <<"a">>, TRUE, <<>>, 0, <<>>),
      File(".pdf", <<"a">>, FALSE, <<>>, 0, <<>>),
      File(".epub", <<"b">>, TRUE, <<>>, 0, <<>>),
      File(".md", <<"b">>, TRUE, <<"a", "\n", "#", " ", "a">>, 0, <<>>),
      File(".markdown", <<"b">>, FALSE, <<>>, 0, <<>>),
      File(".txt", <<"b">>, TRUE, <<"a">>, 0, <<>>) }

\* ------------------------------------------------- one run of the script body

\* the branch of "Main content area" a run takes
main_branch(v, cb) ==
    IF v = "library" THEN "library"
    ELSE IF v = "reader" /\ cb # <<>> THEN "reader"
    ELSE "none"

\* The end of every script run: the library view calls get_all_books(), the
\* reader view calls load_book_from_folder(current_book).
Render(st, v, cb) ==
    /\ rendered' = main_branch(v, cb)
    /\ books' = IF v = "library" THEN get_all_books(st) ELSE books
    /\ loaded' = IF v = "reader" /\ cb # <<>>
                 THEN load_book_from_folder(st, cb) ELSE loaded

\* ------------------------------------------------------------------ actions

\* st.file_uploader: the user chooses a file
SelectFile(f) ==
    /\ uploaded_file' = f
    /\ UNCHANGED <<store, tmp_files, ret, view, current_book, current_chapter>>
    /\ Render(store, view, current_book)

\* if st.button("Process Document"): try: process_uploaded_file(...) ...
\* On success view becomes "library" and the script reruns; on an exception
\* st.error is shown and the run goes on with the current view.
ProcessDocument(tmp_path, staged, save_outcome) ==
    /\ uploaded_file # NoFile
    /\ tmp_path \in (1..MaxTmp) \ tmp_files
    /\ \E out \in {process_uploaded_file(store, tmp_files, uploaded_file, tmp_path,
                                         staged, save_outcome)} :
           /\ store' = out.store
           /\ tmp_files' = out.tmp_files
           /\ ret' = Call("process_uploaded_file", out.res, tmp_path)
           /\ view' = IF out.res.raised THEN view ELSE "library"
           /\ UNCHANGED <<uploaded_file, current_book, current_chapter>>
           /\ Render(out.store, view', current_book)

\* if st.button("Library")
Library ==
    /\ view' = "library"
    /\ current_book' = <<>>
    /\ UNCHANGED <<uploaded_file, store, tmp_files, ret, current_chapter>>
    /\ Render(store, "library", <<>>)

\* if st.button("Read Book", key=f"read_{book_data['id']}")
ReadBook(k) ==
    /\ view = "library"
    /\ \E listed \in {get_all_books(store)} :
           /\ ~listed.raised
           /\ k \in 1..Len(listed.books)
           /\ current_book' = listed.books[k].id
    /\ current_chapter' = 0
    /\ view' = "reader"
    /\ UNCHANGED <<uploaded_file, store, tmp_files, ret>>
    /\ Render(store, "reader", current_book')

\* display_chapter(book, chapter_index) gets past its bounds check
\* (if chapter_index < 0 or chapter_index >= len(book.spine): return)
in_spine(book, chapter_index) ==
    chapter_index >= 0 /\ chapter_index < Len(book.spine)

\* the reader view has a book and display_chapter draws its chapter: the
\* Previous and Next buttons exist
chapter_shown(book) ==
    /\ view = "reader" /\ current_book # <<>>
    /\ ~book.is_none
    /\ in_spine(book.book, current_chapter)

\* if chapter_index > 0: if st.button("<- Previous")
Previous ==
    /\ chapter_shown(loaded)
    /\ current_chapter > 0
    /\ current_chapter' = current_chapter - 1
    /\ UNCHANGED <<uploaded_file, store, tmp_files, ret, view, current_book>>
    /\ Render(store, view, current_book)

\* if chapter_index < len(book.spine) - 1: if st.button("Next ->")
NextChapter ==
    /\ chapter_shown(loaded)
    /\ current_chapter < Len(loaded.book.spine) - 1
    /\ current_chapter' = current_chapter + 1
    /\ UNCHANGED <<uploaded_file, store, tmp_files, ret, view, current_book>>
    /\ Render(store, view, current_book)

\* "Find matching spine index": the first i with ch.href == item.file_href
\* (0-based), -1 for None
spine_index(spine, file_href) ==
    IF \E i \in 1..Len(spine) : chapter_href(spine[i]) = file_href
    THEN SetMin({i \in 1..Len(spine) : chapter_href(spine[i]) = file_href}) - 1
    ELSE -1

\* render_toc(items): the spine indices its buttons set, children included
RECURSIVE render_toc(_, _)

\* the buttons of one item: its own if spine_idx is not None, and its children's
toc_item(item, spine_idx, spine) ==
    (IF spine_idx # -1 THEN {spine_idx} ELSE {}) \cup render_toc(item.children, spine)

render_toc(items, spine) ==
    IF items = <<>> THEN {}
    ELSE toc_item(Head(items), spine_index(spine, Head(items).file_href), spine)
             \cup render_toc(Tail(items), spine)

\* if st.button(f"{item.title}", key=f"toc_{item.href}_{depth}"):
\*     st.session_state.current_chapter = spine_idx
TocClick ==
    /\ view = "reader" /\ current_book # <<>>
    /\ ~loaded.is_none
    /\ \E spine_idx \in render_toc(loaded.book.toc, loaded.book.spine) :
           current_chapter' = spine_idx
    /\ UNCHANGED <<uploaded_file, store, tmp_files, ret, view, current_book>>
    /\ Render(store, view, current_book)

\* else: st.error("Could not load book"); if st.button("Return to Library"):
\* the run that sees the click takes the reader branch once more, and sets
\* the view without a rerun
ReturnToLibrary ==
    /\ view = "reader" /\ current_book # <<>>
    /\ loaded.is_none
    /\ view' = "library"
    /\ UNCHANGED <<uploaded_file, store, tmp_files, ret, current_book, current_chapter>>
    /\ Render(store, "reader", current_book)

Init ==
    /\ uploaded_file = NoFile
    /\ store = EmptyStore
    /\ tmp_files = {}
    /\ ret = NoCall
    /\ view = "library"
    /\ current_book = <<>>
    /\ current_chapter = 0
    /\ rendered = "library"
    /\ books = get_all_books(EmptyStore)
    /\ loaded = NotLoaded

Next ==
    \/ \E f \in Uploads : SelectFile(f)
    \/ \E t \in 1..MaxTmp, staged \in BOOLEAN, o \in SaveOutcomes :
           ProcessDocument(t, staged, o)
    \/ Library
    \/ \E k \in 1..Len(DirList) : ReadBook(k)
    \/ Previous
    \/ NextChapter
    \/ TocClick
    \/ ReturnToLibrary

Spec == Init /\ [][Next]_vars

\* ------------------------------------------- the extractors called directly

\* a Book that an earlier ingestion left in the output directory
OldBook == Book(BookMetadata(<<"o">>, <<Unknown>>),
                <<ChapterContent(chapter_id(0), <<"o">>, <<"o">>, 0)>>)

\* process_pdf(pdf_path, output_dir, title) on a PDF file, title = base name
CallProcessPdf ==
    /\ ret = NoCall
    /\ uploaded_file.ext = ".pdf"
    /\ store' = make_output_dir(store, output_dir(uploaded_file.stem))
    /\ ret' = Call("process_pdf", process_pdf(uploaded_file, uploaded_file.stem), 0)
    /\ UNCHANGED <<uploaded_file, tmp_files, view, current_book, current_chapter,
                   rendered, books, loaded>>

\* process_markdown(md_path, output_dir, title) on a Markdown file
CallProcessMarkdown ==
    /\ ret = NoCall
    /\ uploaded_file.ext = ".md"
    /\ store' = make_output_dir(store, output_dir(uploaded_file.stem))
    /\ ret' = Call("process_markdown",
                   process_markdown(uploaded_file, uploaded_file.stem), 0)
    /\ UNCHANGED <<uploaded_file, tmp_files, view, current_book, current_chapter,
                   rendered, books, loaded>>

InitExtract ==
    /\ uploaded_file \in MarkdownFiles \cup PdfFiles
    /\ store \in {EmptyStore,
                  [EmptyStore EXCEPT ![output_dir(uploaded_file.stem)] =
                                         DirEntry("book", OldBook)]}
    /\ tmp_files = {}
    /\ ret = NoCall
    /\ view = "library"
    /\ current_book = <<>>
    /\ current_chapter = 0
    /\ rendered = "none"
    /\ books = ScanResult(FALSE, <<>>)
    /\ loaded = NotLoaded

NextExtract == CallProcessPdf \/ CallProcessMarkdown

SpecExtract == InitExtract /\ [][NextExtract]_vars

\* ------------------------------------------------------------- the claims

\* an extractor was called and returned a Book
PdfReturned == ret.op = "process_pdf" /\ ~ret.raised

MarkdownReturned == ret.op = "process_markdown" /\ ~ret.raised

\* the titles, and the texts, of a spine
Titles(spine) == [k \in 1..Len(spine) |-> spine[k].title]

Texts(spine) == [k \in 1..Len(spine) |-> spine[k].text]

\* C1: in every Book process_pdf or process_markdown returns, the Section at
\* spine position k (0-based) has order k: the orders are 0..len(spine)-1
\* without gap or duplicate.
C1_SpineOrder ==
    (PdfReturned \/ MarkdownReturned) =>
        \A k \in 1..Len(ret.book.spine) : ret.book.spine[k].order = k - 1

\* C1 witness: process_markdown returned a Book of three Sections
C1_Witness == MarkdownReturned /\ Len(ret.book.spine) = 3

\* C2: every Book process_pdf returns has at least one Section (a PDF of zero
\* pages is refused).
C2_NonEmptySpine == PdfReturned => Len(ret.book.spine) >= 1

\* the pieces re.split cuts the Markdown text into, and its number of headings
Pieces == re_split(uploaded_file.text)

Headings == (Len(Pieces) - 1) \div 2

\* the spine C3 describes: an "Introduction" Section exactly when something
\* precedes the first heading, then one Section per heading, titled by the
\* heading text and holding the lines up to the next heading
PartitionTitles ==
    (IF Pieces[1] # <<>> THEN <<Introduction>> ELSE <<>>)
        \o [j \in 1..Headings |-> strip(strip_hash(Pieces[2 * j]))]

PartitionTexts ==
    (IF Pieces[1] # <<>> THEN <<Pieces[1]>> ELSE <<>>)
        \o [j \in 1..Headings |-> Pieces[2 * j + 1]]

\* C3: a Markdown text with at least one level-1/level-2 heading yields one
\* Section per heading, preceded by an "Introduction" Section exactly when
\* there is content before the first heading; the example document yields
\* exactly 2 Sections.
C3_HeadingPartition ==
    (MarkdownReturned /\ Headings >= 1) =>
        /\ Titles(ret.book.spine) = PartitionTitles
        /\ Texts(ret.book.spine) = PartitionTexts
        /\ uploaded_file.text = ExampleDoc => Len(ret.book.spine) = 2

\* C4: a Markdown text without level-1/level-2 heading yields exactly one
\* Section, whose text is the whole input and whose title is the title hint.
C4_NoHeadingSingleSection ==
    (MarkdownReturned /\ Headings = 0) =>
        /\ Len(ret.book.spine) = 1
        /\ ret.book.spine[1].text = uploaded_file.text
        /\ ret.book.spine[1].title = uploaded_file.stem

\* the first heading of the text is a level-2 heading
FirstHeadingIsLevel2 == Headings >= 1 /\ HashRun(Pieces[2], 1) = 2

\* C5 as stated: when the first heading is level-2, or there is no heading,
\* Metadata.title is the title hint, even if a level-1 heading comes later.
C5_TitleOnlyFromFirstHeading ==
    (MarkdownReturned /\ (Headings = 0 \/ FirstHeadingIsLevel2)) =>
        ret.book.metadata.title = uploaded_file.stem

\* the line starts of the text where a level-1 heading (one marker, whitespace,
\* text) begins
Level1Starts ==
    {q \in 1..Len(uploaded_file.text) :
        /\ LineStart(uploaded_file.text, q)
        /\ match_heading(uploaded_file.text, q, 1).ok}

\* C5 as amended: Metadata.title is the text of the first level-1 heading of
\* the document, wherever it stands (a level-2 heading may precede it), and
\* the title hint only when the document has no level-1 heading.
C5_TitleFromFirstLevel1 ==
    MarkdownReturned =>
        ret.book.metadata.title =
            IF Level1Starts = {} THEN uploaded_file.stem
            ELSE group1(uploaded_file.text,
                        match_heading(uploaded_file.text, SetMin(Level1Starts), 1))

\* C5 witness: a level-2 heading comes first, a level-1 heading follows, and
\* the title is not the hint
C5_Witness ==
    /\ MarkdownReturned
    /\ FirstHeadingIsLevel2
    /\ Headings >= 2
    /\ ret.book.metadata.title # uploaded_file.stem

\* C6: every Section of a Book process_pdf or process_markdown returns has a
\* non-empty title.
C6_TitlesNonEmpty ==
    (PdfReturned \/ MarkdownReturned) =>
        \A k \in 1..Len(ret.book.spine) : ret.book.spine[k].title # <<>>

\* the last page (1-based) of page group k (0-based) of n pages
GroupLast(k, n) == IF 10 * k + 10 < n THEN 10 * k + 10 ELSE n

\* the text of pages first..last (1-based) joined by blank lines
PagesText(first, last) ==
    join_blank_line([p \in 1..(last - first + 1) |->
                        extract_text(uploaded_file, first + p - 2)])

\* C7: a PDF of N >= 1 pages yields ceil(N/10) Sections; Section k covers
\* pages 10k+1 .. min(10k+10, N) in page order and is titled
\* "Pages {10k+1}-{min(10k+10, N)}"; 25 pages give "Pages 1-10",
\* "Pages 11-20", "Pages 21-25".
C7_PageGroups ==
    (PdfReturned /\ uploaded_file.num_pages >= 1) =>
        /\ Len(ret.book.spine) = (uploaded_file.num_pages + 9) \div 10
        /\ \A k \in 0..(Len(ret.book.spine) - 1) :
              /\ ret.book.spine[k + 1].title =
                     <<"P", "a", "g", "e", "s", " ">> \o str_int(10 * k + 1)
                         \o <<"-">> \o str_int(GroupLast(k, uploaded_file.num_pages))
              /\ ret.book.spine[k + 1].text =
                     PagesText(10 * k + 1, GroupLast(k, uploaded_file.num_pages))
        /\ uploaded_file.num_pages = 25 =>
              Titles(ret.book.spine) =
                  << <<"P", "a", "g", "e", "s", " ", "1", "-", "1", "0">>,
                     <<"P", "a", "g", "e", "s", " ", "1", "1", "-", "2", "0">>,
                     <<"P", "a", "g", "e", "s", " ", "2", "1", "-", "2", "5">> >>

\* C7 witness: process_pdf returned the Book of a PDF of 25 pages
C7_Witness == PdfReturned /\ uploaded_file.num_pages = 25 /\ Len(ret.book.spine) = 3

\* the directories named *_data whose book.pkl unpickles to a Book
Loadable == {d \in Dirs : endswith(d, DataSuffix) /\ store[d].state = "book"}

\* C8: get_all_books does not raise, and lists exactly one summary (id, title,
\* authors, spine length) for each *_data directory whose artifact loads;
\* directories whose artifact is missing or does not unpickle are left out.
C8_ScanListsLoadable ==
    rendered = "library" =>
        /\ ~books.raised
        /\ Len(books.books) = Cardinality(Loadable)
        /\ \A d \in Loadable :
              \E k \in 1..Len(books.books) :
                  /\ books.books[k].id = d
                  /\ books.books[k].title = store[d].book.metadata.title
                  /\ books.books[k].authors = store[d].book.metadata.authors
                  /\ books.books[k].chapters = Len(store[d].book.spine)

\* C8 witness: the library was scanned with one loadable artifact, one
\* truncated artifact, and one summary came back
C8_Witness ==
    /\ rendered = "library"
    /\ Cardinality(Loadable) = 1
    /\ \E d \in Dirs : store[d].state = "corrupt"
    /\ Len(books.books) = 1

\* what a caller of load_book_from_folder sees for NotFound: None, no exception
NotFoundOutcome(r) == ~r.raised /\ r.is_none

\* C9: load_book_from_folder never raises, and for an artifact that exists
\* but does not unpickle its caller gets an outcome other than NotFound's.
C9_CorruptDistinguished ==
    (rendered = "reader" /\ store[current_book].state = "corrupt") =>
        ~loaded.raised /\ ~NotFoundOutcome(loaded)

\* C10: once process_uploaded_file has exited, on whatever path, the temporary
\* file it created no longer exists.
C10_TempFileRemoved ==
    ret.op = "process_uploaded_file" => ret.tmp_path \notin tmp_files

\* C11: a failed process_uploaded_file leaves the store as it was: a Book
\* persisted in {base_name}_data before the call is still there, and loads to
\* the same Book, after the call.
C11_FailedUploadKeepsBook ==
    [][(ret'.op = "process_uploaded_file" /\ ret'.raised
            /\ store[output_dir(uploaded_file.stem)].state = "book")
        => store'[output_dir(uploaded_file.stem)] = store[output_dir(uploaded_file.stem)]]_vars

\* C12: whenever the reader view is shown and its book loads,
\* current_chapter is an index of the book's spine, so display_chapter never
\* takes its "Chapter not found" branch.
C12_ChapterInSpine ==
    (view = "reader" /\ rendered = "reader" /\ ~loaded.is_none) =>
        in_spine(loaded.book, current_chapter)

====
